---- MODULE Spec2Model ----
(***************************************************************************)
(* State-machine model of src/app.js, the client-side enhancement layer of *)
(* the blog.  Each class of app.js is a component; every component has its *)
(* own specification over the shared variables (the components touch      *)
(* disjoint parts of the document), and the variables of the components a  *)
(* specification does not run stay at their initial values.                *)
(*                                                                         *)
(*   SpecTheme          ThemeManager as initializeBlog runs it             *)
(*   SpecThemeFair      SpecTheme with the 100 ms retry timer firing fairly*)
(*   SpecThemeReinvoke  SpecTheme plus repeated calls of createThemeToggle *)
(*   SpecProgress       ReadingProgress: scroll events and frame callbacks *)
(*   SpecProgressReinvoke  SpecProgress plus repeated calls of             *)
(*                      createProgressBar                                  *)
(*   SpecSlug           TableOfContents.generateId on bounded texts        *)
(*   SpecContent        LinkCopier.addCopyLinks and TableOfContents as     *)
(*                      initializeBlog runs them on a rendered region      *)
(*   SpecContentReinvoke  SpecContent plus repeated calls of addCopyLinks  *)
(*                      and generateTOC                                    *)
(*   SpecCopy           LinkCopier.copyLink on one copy button             *)
(*   SpecSmooth         SmoothScroll: clicks on the document               *)
(*   SpecAnalytics      Analytics: page views and search usage             *)
(*   SpecSearch         SearchEnhancer: its timer and key presses          *)
(*   SpecObserved       ThemeManager with Analytics observing the page     *)
(***************************************************************************)
EXTENDS Integers, Sequences, FiniteSets, TLC

VARIABLES
  \* ---- ThemeManager and the part of the document it touches
  started,        \* the ThemeManager constructor has run
  storageOK,      \* FALSE: localStorage throws on every getItem/setItem
  stored,         \* localStorage['blog-theme'] (NULL: no such key)
  sysDark,        \* matchMedia('(prefers-color-scheme: dark)').matches
  currentTheme,   \* this.currentTheme
  attr,           \* <html data-color-scheme="..."> (NULL: attribute absent)
  navPresent,     \* the host has rendered .app-nav
  toggleCount,    \* number of #theme-toggle buttons in the document
  toggleIcon,     \* textContent of the toggle button
  toggleLabel,    \* aria-label of the toggle button
  retryTimers,    \* pending setTimeout(addToggle, 100) timers
  listening,      \* the matchMedia 'change' listener is registered
  uncaught,       \* an exception escaped a handler of the ThemeManager
  \* ---- ReadingProgress and the scroll metrics it reads
  progStarted,    \* the ReadingProgress constructor has run
  barCount,       \* number of #reading-progress elements in the document
  pageYOffset,    \* window.pageYOffset
  scrollHeight,   \* document.documentElement.scrollHeight
  innerHeight,    \* window.innerHeight
  ticking,        \* the closure variable `ticking` of addScrollListener
  rafPending,     \* requestAnimationFrame(updateProgress) calls not yet run
  progressWidth,  \* the value last assigned to progressBar.style.width
  \* ---- history (observation only, never read by the program)
  lastOp,         \* the handler that ran last
  prevOp,         \* the handler that ran before it
  prevAttr,       \* attr before the last handler
  prev2Attr,      \* attr before the last two handlers
  prevCur,        \* currentTheme before the last handler
  userToggled,    \* the user has clicked the toggle at least once
  initialStored,  \* what getStoredTheme() returned in the constructor
  ranWithNav,     \* addToggle has run with .app-nav present
  \* ---- TableOfContents.generateId applied to a text
  slugText,       \* the text handed to generateId
  slugOnce,       \* generateId(slugText)
  slugTwice,      \* generateId(generateId(slugText))
  slugStep,       \* how many times generateId has been applied (0..2)
  \* ---- the content region, LinkCopier.addCopyLinks and TableOfContents
  contentPresent, \* the host has rendered .markdown-section
  nodes,          \* its child nodes in document order
  builtList,      \* the entries of the list createTOCList returned last
  contentStarted, \* LinkCopier and TableOfContents have been constructed
  linkTimer,      \* LinkCopier's setTimeout(addCopyLinks, 1000) is pending
  tocTimer,       \* TableOfContents' setTimeout(generateTOC, 1500) is pending
  reinvokes,      \* calls of addCopyLinks / generateTOC beyond the timers'
  prevNodes,      \* history: nodes before the last handler
  \* ---- one copy button of LinkCopier and the clipboard
  btnIcon,        \* innerHTML of the button: "link" or "check"
  btnColor,       \* style.color of the button
  feedbackTimers, \* pending 2000 ms timers of showCopyFeedback, oldest
                  \* first, each holding the originalIcon it captured
  copyInflight,   \* copyLink calls awaiting navigator.clipboard.writeText
  copyClicks,     \* clicks on the button so far
  clipboard,      \* the text on the system clipboard
  strayTextAreas, \* textareas of fallbackCopy left in document.body
  copyUncaught,   \* copyLink's promise was rejected (nobody handles it)
  lastOutcome,    \* history: how the copy settled last went
  lastFeedback,   \* history: that copyLink call showed the success feedback
  \* ---- SmoothScroll: the last click on the document
  clickKind,      \* what was clicked (see ClickKinds), "none" before any
  targetTop,      \* target.getBoundingClientRect().top of the link's target
  defaultPrevented, \* e.preventDefault() was called on that click
  scrollIssued,   \* <<top>> of the window.scrollTo it issued, <<>> if none
  smoothUncaught, \* an exception escaped the click listener
  \* ---- Analytics
  analyticsStarted, \* the Analytics constructor has run
  location,       \* window.location.pathname + window.location.hash
  pageViews,      \* this.pageViews
  sink,           \* the lines Analytics wrote to the console, oldest first
  searchCount,    \* the closure variable searchCount of trackSearchUsage
  visited,        \* history: the locations the page has been at since the
                  \* Analytics constructor ran
  \* ---- SearchEnhancer and the search box it looks for
  searchStarted,  \* the SearchEnhancer constructor has run
  searchTimer,    \* its setTimeout(enhanceSearch, 1000) is pending
  searchInput,    \* the host has rendered .search input[type="search"]
  keyHandlers,    \* 'keydown' listeners enhanceSearch registered on document
  placeholder,    \* placeholder of the search input ("" as the host set it)
  searchFocused,  \* document.activeElement is the search input
  lastKey,        \* the key pressed last, "none" before any
  keyPrevented,   \* e.preventDefault() was called on that key press
  attemptSaw,     \* history: what the first run of enhanceSearch found:
                  \* "none" (not run yet), "absent" or "present"
  shortcutFocused \* history: a key press has moved the focus to the input

themeVars == <<started, storageOK, stored, sysDark, currentTheme, attr,
               navPresent, toggleCount, toggleIcon, toggleLabel, retryTimers,
               listening, uncaught>>
progVars  == <<progStarted, barCount, pageYOffset, scrollHeight, innerHeight,
               ticking, rafPending, progressWidth>>
histVars  == <<lastOp, prevOp, prevAttr, prev2Attr, prevCur, userToggled,
               initialStored, ranWithNav>>
slugVars  == <<slugText, slugOnce, slugTwice, slugStep>>
\* the variables of the components other than ThemeManager and
\* ReadingProgress
contentVars == <<contentPresent, nodes, builtList, contentStarted, linkTimer,
                 tocTimer, reinvokes, prevNodes>>
copyVars == <<btnIcon, btnColor, feedbackTimers, copyInflight, copyClicks,
              clipboard, strayTextAreas, copyUncaught, lastOutcome,
              lastFeedback>>
smoothVars == <<clickKind, targetTop, defaultPrevented, scrollIssued,
                smoothUncaught>>
analyticsVars == <<analyticsStarted, location, pageViews, sink, searchCount,
                   visited>>
searchVars == <<searchStarted, searchTimer, searchInput, keyHandlers,
                placeholder, searchFocused, lastKey, keyPrevented, attemptSaw,
                shortcutFocused>>
laterVars == <<slugVars, contentVars, copyVars, smoothVars, analyticsVars,
               searchVars>>
vars      == <<themeVars, progVars, histVars, laterVars>>

----------------------------------------------------------------------------
\* Bounds of the model

\* re-invocations of createThemeToggle may leave at most this many timers
MaxTimers == 2
\* window.innerHeight ranges over 1..MaxViewport (in screenfuls)
MaxViewport == 2
\* documentElement.scrollHeight ranges over innerHeight..MaxDoc
MaxDoc == 4
\* cap on outstanding animation-frame requests (the code keeps it at 1)
MaxPending == 3
\* generateId is applied to every text of at most this many characters
MaxSlugLen == 4
\* the content region holds at most this many child nodes when rendered
MaxNodes == 4
\* addCopyLinks and generateTOC are called again at most this often
MaxReinvoke == 2
\* the copy button is clicked at most this often
MaxClicks == 3
\* at most this many input events reach the search box
MaxInputs == 2
\* the console holds at most this many lines of Analytics
MaxSink == 4
\* createProgressBar is called until the document holds this many bars
MaxBars == 3

----------------------------------------------------------------------------
\* Values

\* JavaScript null / an absent attribute; not a string storage can hold
NULL == "<null>"

Themes == {"light", "dark"}

\* what localStorage may hold under 'blog-theme' when the page loads: no key,
\* a theme written by an earlier visit, a string that is no theme, or ""
StoredValues == {NULL, "light", "dark", "blue", ""}

\* JavaScript truthiness of a string-or-null value (the `||` of line 9 and
\* the `!` of line 112)
Truthy(v) == v # NULL /\ v # ""

----------------------------------------------------------------------------
\* ThemeManager: pure parts

\* getStoredTheme(): the catch turns a throwing getItem into null
getStoredTheme == IF storageOK THEN stored ELSE NULL

\* getSystemPreference() for a given matchMedia result
getSystemPreference(dark) == IF dark THEN "dark" ELSE "light"

resolveInitial_SystemFirst ==
  IF sysDark THEN "dark"
  ELSE IF Truthy(getStoredTheme) THEN getStoredTheme ELSE "light"

\* constructor: this.getStoredTheme() || this.getSystemPreference()
resolveInitial ==
  IF Truthy(getStoredTheme) THEN getStoredTheme
  ELSE getSystemPreference(sysDark)

storeTheme_NoCatch(theme) ==
  IF storageOK THEN [stored |-> theme, threw |-> FALSE]
  ELSE [stored |-> stored, threw |-> TRUE]

\* storeTheme(theme): the new storage content and whether an exception
\* escapes; the catch swallows a throwing setItem
storeTheme(theme) ==
  IF storageOK THEN [stored |-> theme, threw |-> FALSE]
  ELSE [stored |-> stored, threw |-> FALSE]

\* toggleTheme(): the theme it switches to
newTheme(cur) == IF cur = "dark" THEN "light" ELSE "dark"

\* updateToggleButton(): icon and label for a theme
iconFor(theme)  == IF theme = "dark" THEN "sun" ELSE "moon"
labelFor(theme) ==
  IF theme = "dark" THEN "Switch to light theme" ELSE "Switch to dark theme"

----------------------------------------------------------------------------
\* History bookkeeping shared by the handlers

Record(op) ==
  /\ lastOp' = op
  /\ prevOp' = lastOp
  /\ prevAttr' = attr
  /\ prev2Attr' = prevAttr
  /\ prevCur' = currentTheme

----------------------------------------------------------------------------
\* ThemeManager: handlers

\* applyTheme(theme): setAttribute, this.currentTheme, storeTheme.  The
\* first two statements run before storeTheme can throw.
applyTheme(theme) ==
  /\ attr' = theme
  /\ currentTheme' = theme
  /\ stored' = storeTheme(theme).stored
  /\ uncaught' = (uncaught \/ storeTheme(theme).threw)

updateToggleButton_Stale(cur) == UNCHANGED <<toggleIcon, toggleLabel>>

\* updateToggleButton() for the theme `cur`, on the buttons there are
updateToggleButton(cur) ==
  IF toggleCount >= 1
  THEN toggleIcon' = iconFor(cur) /\ toggleLabel' = labelFor(cur)
  ELSE UNCHANGED <<toggleIcon, toggleLabel>>

addToggle_NoExistsCheck(cur, timers) ==
  /\ ranWithNav' = (ranWithNav \/ navPresent)
  /\ IF ~navPresent
     THEN /\ retryTimers' = timers + 1
          /\ UNCHANGED <<toggleCount, toggleIcon, toggleLabel>>
     ELSE /\ retryTimers' = timers
          /\ toggleCount' = toggleCount + 1
          /\ toggleIcon' = iconFor(cur)
          /\ toggleLabel' = labelFor(cur)

addToggle_SingleAttempt(cur, timers) ==
  /\ ranWithNav' = (ranWithNav \/ navPresent)
  /\ retryTimers' = timers
  /\ IF ~navPresent \/ toggleCount >= 1
     THEN UNCHANGED <<toggleCount, toggleIcon, toggleLabel>>
     ELSE /\ toggleCount' = toggleCount + 1
          /\ toggleIcon' = iconFor(cur)
          /\ toggleLabel' = labelFor(cur)

addToggle_KeepsPolling(cur, timers) ==
  /\ ranWithNav' = (ranWithNav \/ navPresent)
  /\ retryTimers' = timers + 1
  /\ IF ~navPresent \/ toggleCount >= 1
     THEN UNCHANGED <<toggleCount, toggleIcon, toggleLabel>>
     ELSE /\ toggleCount' = toggleCount + 1
          /\ toggleIcon' = iconFor(cur)
          /\ toggleLabel' = labelFor(cur)

\* The closure addToggle of createThemeToggle, run with this.currentTheme =
\* cur and `timers` retry timers pending besides the one that may have just
\* fired: reschedule while .app-nav is absent, return when a button exists,
\* else append one button and run updateToggleButton on it.
addToggle(cur, timers) ==
  /\ ranWithNav' = (ranWithNav \/ navPresent)
  /\ IF ~navPresent
     THEN /\ retryTimers' = timers + 1
          /\ UNCHANGED <<toggleCount, toggleIcon, toggleLabel>>
     ELSE /\ retryTimers' = timers
          /\ IF toggleCount >= 1
             THEN UNCHANGED <<toggleCount, toggleIcon, toggleLabel>>
             ELSE /\ toggleCount' = toggleCount + 1
                  /\ toggleIcon' = iconFor(cur)
                  /\ toggleLabel' = labelFor(cur)

\* new ThemeManager(): constructor and init().  An exception escaping
\* applyTheme would abort init() before createThemeToggle and
\* addSystemThemeListener.
StartupStep ==
  /\ ~started
  /\ started' = TRUE
  /\ initialStored' = getStoredTheme
  /\ applyTheme(resolveInitial)
  /\ IF uncaught'
     THEN /\ listening' = FALSE
          /\ UNCHANGED <<toggleCount, toggleIcon, toggleLabel, retryTimers,
                         ranWithNav>>
     ELSE /\ listening' = TRUE
          /\ addToggle(resolveInitial, retryTimers)
  /\ Record("startup")
  /\ UNCHANGED <<storageOK, sysDark, navPresent, userToggled>>

\* new ThemeManager() with the rest of the page untouched
Startup == StartupStep /\ UNCHANGED <<progVars, laterVars>>

\* click on #theme-toggle: toggleTheme()
ToggleClickStep ==
  /\ started
  /\ toggleCount >= 1
  /\ applyTheme(newTheme(currentTheme))
  /\ IF uncaught'
     THEN UNCHANGED <<toggleIcon, toggleLabel>>
     ELSE updateToggleButton(newTheme(currentTheme))
  /\ userToggled' = TRUE
  /\ Record("toggle")
  /\ UNCHANGED <<started, storageOK, sysDark, navPresent, toggleCount,
                 retryTimers, listening, initialStored, ranWithNav>>

\* the click with the rest of the page untouched
ToggleClick == ToggleClickStep /\ UNCHANGED <<progVars, laterVars>>

\* the system colour scheme flips: the 'change' listener of
\* addSystemThemeListener runs with e.matches = the new value
SystemChangeStep ==
  /\ listening
  /\ sysDark' = ~sysDark
  /\ IF ~Truthy(getStoredTheme)
     THEN /\ applyTheme(getSystemPreference(~sysDark))
          /\ IF uncaught'
             THEN UNCHANGED <<toggleIcon, toggleLabel>>
             ELSE updateToggleButton(getSystemPreference(~sysDark))
     ELSE UNCHANGED <<attr, currentTheme, stored, uncaught, toggleIcon,
                      toggleLabel>>
  /\ Record("system")
  /\ UNCHANGED <<started, storageOK, navPresent, toggleCount, retryTimers,
                 listening, userToggled, initialStored, ranWithNav>>

\* the change event with the rest of the page untouched
SystemChange == SystemChangeStep /\ UNCHANGED <<progVars, laterVars>>

\* the host renders .app-nav (it renders it once and keeps it)
NavAppearsStep ==
  /\ ~navPresent
  /\ navPresent' = TRUE
  /\ Record("nav")
  /\ UNCHANGED <<started, storageOK, stored, sysDark, currentTheme, attr,
                 toggleCount, toggleIcon, toggleLabel, retryTimers, listening,
                 uncaught, userToggled, initialStored, ranWithNav>>

\* .app-nav appears, nothing else changes
NavAppears == NavAppearsStep /\ UNCHANGED <<progVars, laterVars>>

\* a setTimeout(addToggle, 100) timer fires
RetryTimerStep ==
  /\ retryTimers >= 1
  /\ addToggle(currentTheme, retryTimers - 1)
  /\ Record("timer")
  /\ UNCHANGED <<started, storageOK, stored, sysDark, currentTheme, attr,
                 navPresent, listening, uncaught, userToggled, initialStored>>

\* the timer fires, nothing else changes
RetryTimer == RetryTimerStep /\ UNCHANGED <<progVars, laterVars>>

\* createThemeToggle() called again on the same ThemeManager
CreateThemeToggleAgain ==
  /\ started
  /\ ~uncaught
  /\ retryTimers < MaxTimers
  /\ addToggle(currentTheme, retryTimers)
  /\ Record("create")
  /\ UNCHANGED <<started, storageOK, stored, sysDark, currentTheme, attr,
                 navPresent, listening, uncaught, userToggled, initialStored>>
  /\ UNCHANGED <<progVars, laterVars>>

----------------------------------------------------------------------------
\* Initial states

HistInit ==
  /\ lastOp = "none"
  /\ prevOp = "none"
  /\ prevAttr = NULL
  /\ prev2Attr = NULL
  /\ prevCur = NULL
  /\ userToggled = FALSE
  /\ initialStored = NULL
  /\ ranWithNav = FALSE

\* The page before `new ThemeManager()` (line 518): any storage content, a
\* storage that works or throws, either system preference, .app-nav
\* rendered or not.  A storage that throws on every access shows the
\* program no content.
ThemeInit ==
  /\ started = FALSE
  /\ storageOK \in BOOLEAN
  /\ stored \in (IF storageOK THEN StoredValues ELSE {NULL})
  /\ sysDark \in BOOLEAN
  /\ currentTheme = NULL
  /\ attr = NULL
  /\ navPresent \in BOOLEAN
  /\ toggleCount = 0
  /\ toggleIcon = ""
  /\ toggleLabel = ""
  /\ retryTimers = 0
  /\ listening = FALSE
  /\ uncaught = FALSE

\* ThemeManager not under study
ThemeIdle ==
  /\ started = FALSE
  /\ storageOK = TRUE
  /\ stored = NULL
  /\ sysDark = FALSE
  /\ currentTheme = NULL
  /\ attr = NULL
  /\ navPresent = FALSE
  /\ toggleCount = 0
  /\ toggleIcon = ""
  /\ toggleLabel = ""
  /\ retryTimers = 0
  /\ listening = FALSE
  /\ uncaught = FALSE

----------------------------------------------------------------------------
\* ReadingProgress: values written to style.width

\* a finite number (the integer part of it: a real x lies in [0, 100]
\* exactly when its integer part does), NaN, +Infinity, -Infinity
Num(n) == <<"num", n>>
NaN    == <<"NaN", 0>>
PosInf == <<"Infinity", 1>>
NegInf == <<"Infinity", -1>>
\* style.width before the bar exists
NoWidth == <<"none", 0>>

Min(a, b) == IF a <= b THEN a ELSE b

\* (scrollTop / docHeight) * 100 in IEEE-754 arithmetic: 0/0 is NaN, x/0 is
\* an infinity
scrollPercent(top, docHeight) ==
  IF docHeight = 0
  THEN IF top = 0 THEN NaN ELSE IF top > 0 THEN PosInf ELSE NegInf
  ELSE IF docHeight > 0
       THEN Num((top * 100) \div docHeight)
       ELSE Num((0 - top * 100) \div (0 - docHeight))

\* Math.min(scrollPercent, 100): NaN stays NaN, there is no lower clamp
mathMin100(v) ==
  IF v = NaN THEN NaN
  ELSE IF v = PosInf THEN Num(100)
  ELSE IF v = NegInf THEN NegInf
  ELSE Num(Min(v[2], 100))

----------------------------------------------------------------------------
\* ReadingProgress: handlers

\* the 'scroll' listener: request one frame unless one is already requested
scrollListener ==
  IF ~ticking
  THEN /\ rafPending' = rafPending + 1
       /\ ticking' = TRUE
  ELSE UNCHANGED <<rafPending, ticking>>

updateProgress_NoReset ==
  IF barCount = 0
  THEN UNCHANGED <<progressWidth, ticking>>
  ELSE /\ progressWidth' =
            mathMin100(scrollPercent(pageYOffset, scrollHeight - innerHeight))
       /\ UNCHANGED ticking

\* updateProgress: returns early (ticking left set) when the bar is missing
updateProgress ==
  IF barCount = 0
  THEN UNCHANGED <<progressWidth, ticking>>
  ELSE /\ progressWidth' =
            mathMin100(scrollPercent(pageYOffset, scrollHeight - innerHeight))
       /\ ticking' = FALSE

\* new ReadingProgress(): createProgressBar appends a bar of width 0%
\* (without looking for one), addScrollListener registers the listener
ProgressStart ==
  /\ ~progStarted
  /\ progStarted' = TRUE
  /\ barCount' = barCount + 1
  /\ progressWidth' = Num(0)
  /\ Record("progress-start")
  /\ UNCHANGED <<pageYOffset, scrollHeight, innerHeight, ticking, rafPending>>
  /\ UNCHANGED <<themeVars, userToggled, initialStored, ranWithNav>>
  /\ UNCHANGED laterVars

\* the user scrolls to another position the browser allows; the listener runs
ScrollEvent ==
  /\ progStarted
  /\ rafPending < MaxPending
  /\ \E y \in 0..(scrollHeight - innerHeight) :
       /\ y # pageYOffset
       /\ pageYOffset' = y
  /\ scrollListener
  /\ Record("scroll")
  /\ UNCHANGED <<progStarted, barCount, scrollHeight, innerHeight,
                 progressWidth>>
  /\ UNCHANGED <<themeVars, userToggled, initialStored, ranWithNav>>
  /\ UNCHANGED laterVars

\* the host re-renders the content or the window is resized: new heights; the
\* browser clamps the scroll position, and fires 'scroll' if that moved it
LayoutChange ==
  /\ progStarted
  /\ rafPending < MaxPending
  /\ \E ih \in 1..MaxViewport : \E sh \in ih..MaxDoc :
       /\ <<ih, sh>> # <<innerHeight, scrollHeight>>
       /\ innerHeight' = ih
       /\ scrollHeight' = sh
       /\ pageYOffset' = Min(pageYOffset, sh - ih)
  /\ IF pageYOffset' # pageYOffset
     THEN scrollListener /\ Record("scroll")
     ELSE UNCHANGED <<rafPending, ticking>> /\ Record("layout")
  /\ UNCHANGED <<progStarted, barCount, progressWidth>>
  /\ UNCHANGED <<themeVars, userToggled, initialStored, ranWithNav>>
  /\ UNCHANGED laterVars

\* the browser renders a frame: one requested updateProgress callback runs
Frame ==
  /\ rafPending >= 1
  /\ rafPending' = rafPending - 1
  /\ updateProgress
  /\ Record("frame")
  /\ UNCHANGED <<progStarted, barCount, pageYOffset, scrollHeight,
                 innerHeight>>
  /\ UNCHANGED <<themeVars, userToggled, initialStored, ranWithNav>>
  /\ UNCHANGED laterVars

\* createProgressBar() called again in the same document: it appends another
\* element with id 'reading-progress' (lines 132-144 look for none);
\* getElementById keeps returning the first one, whose width is untouched
CreateProgressBarAgain ==
  /\ progStarted
  /\ barCount < MaxBars
  /\ barCount' = barCount + 1
  /\ Record("create-bar")
  /\ UNCHANGED <<progStarted, pageYOffset, scrollHeight, innerHeight, ticking,
                 rafPending, progressWidth>>
  /\ UNCHANGED <<themeVars, userToggled, initialStored, ranWithNav>>
  /\ UNCHANGED laterVars

\* The page before `new ReadingProgress()` (line 519): any heights with the
\* document at least as tall as the viewport, any scroll position in range
ProgInit ==
  /\ progStarted = FALSE
  /\ barCount = 0
  /\ innerHeight \in 1..MaxViewport
  /\ scrollHeight \in innerHeight..MaxDoc
  /\ pageYOffset \in 0..(scrollHeight - innerHeight)
  /\ ticking = FALSE
  /\ rafPending = 0
  /\ progressWidth = NoWidth

\* ReadingProgress not under study
ProgIdle ==
  /\ progStarted = FALSE
  /\ barCount = 0
  /\ innerHeight = 1
  /\ scrollHeight = 1
  /\ pageYOffset = 0
  /\ ticking = FALSE
  /\ rafPending = 0
  /\ progressWidth = NoWidth

----------------------------------------------------------------------------
\* TableOfContents.generateId.  A text is a sequence of characters.

UpperLetters == <<"A", "B", "C", "D", "E", "F", "G", "H", "I", "J", "K", "L",
                  "M", "N", "O", "P", "Q", "R", "S", "T", "U", "V", "W", "X",
                  "Y", "Z">>
LowerLetters == <<"a", "b", "c", "d", "e", "f", "g", "h", "i", "j", "k", "l",
                  "m", "n", "o", "p", "q", "r", "s", "t", "u", "v", "w", "x",
                  "y", "z">>
DigitChars   == <<"0", "1", "2", "3", "4", "5", "6", "7", "8", "9">>

Range(f) == {f[i] : i \in DOMAIN f}

\* what the regular expression class \s matches, among the characters used
Whitespace == {" ", "\t", "\n"}

\* String.prototype.toLowerCase
toLowerCase(text) ==
  [i \in 1..Len(text) |->
     IF text[i] \in Range(UpperLetters)
     THEN LowerLetters[CHOOSE k \in 1..Len(UpperLetters) :
                         UpperLetters[k] = text[i]]
     ELSE text[i]]

\* the characters /[^a-z0-9 -]/ does not match
KeptChars == Range(LowerLetters) \cup Range(DigitChars) \cup {" ", "-"}

\* .replace(/[^a-z0-9 -]/g, '')
stripOthers(text) == SelectSeq(text, LAMBDA c : c \in KeptChars)

RECURSIVE dropWhile(_, _)
\* text without its longest prefix of characters of `class`
dropWhile(text, class) ==
  IF text # <<>> /\ Head(text) \in class
  THEN dropWhile(Tail(text), class)
  ELSE text

RECURSIVE replaceRuns(_, _)
\* .replace(/c+/g, '-') for the character class `class`
replaceRuns(text, class) ==
  IF text = <<>> THEN <<>>
  ELSE IF Head(text) \in class
       THEN <<"-">> \o replaceRuns(dropWhile(Tail(text), class), class)
       ELSE <<Head(text)>> \o replaceRuns(Tail(text), class)

Reverse(text) == [i \in 1..Len(text) |-> text[Len(text) + 1 - i]]

\* String.prototype.trim: whitespace off both ends
trim(text) ==
  Reverse(dropWhile(Reverse(dropWhile(text, Whitespace)), Whitespace))

generateId_HyphensFirst(text) ==
  trim(replaceRuns(replaceRuns(stripOthers(toLowerCase(text)), {"-"}),
                   Whitespace))

\* generateId(text): lower-case, strip, whitespace runs to '-', hyphen runs
\* to '-', trim, in this order
generateId(text) ==
  trim(replaceRuns(replaceRuns(stripOthers(toLowerCase(text)), Whitespace),
                   {"-"}))

\* The texts generateId is applied to: every text of at most MaxSlugLen
\* characters over letters of both cases, a digit, space, tab, hyphen and
\* punctuation, and the text of the documented example.
SlugAlphabet == {"a", "B", "7", " ", "\t", "-", "!"}

HelloText == <<"H", "e", "l", "l", "o", ",", " ", "W", "o", "r", "l", "d",
               "!", "!", " ", "2", "0", "2", "4">>

SlugInputs ==
  UNION {[1..k -> SlugAlphabet] : k \in 0..MaxSlugLen} \cup {HelloText}

\* a heading's text reaches generateId (createTOCList, line 360)
Slugify ==
  /\ slugStep = 0
  /\ slugOnce' = generateId(slugText)
  /\ slugStep' = 1
  /\ Record("slug")
  /\ UNCHANGED <<slugText, slugTwice>>
  /\ UNCHANGED <<themeVars, progVars, userToggled, initialStored, ranWithNav>>
  /\ UNCHANGED <<contentVars, copyVars, smoothVars, analyticsVars,
                 searchVars>>

\* the identifier is used as a heading text in turn
SlugifyAgain ==
  /\ slugStep = 1
  /\ slugTwice' = generateId(slugOnce)
  /\ slugStep' = 2
  /\ Record("slug-again")
  /\ UNCHANGED <<slugText, slugOnce>>
  /\ UNCHANGED <<themeVars, progVars, userToggled, initialStored, ranWithNav>>
  /\ UNCHANGED <<contentVars, copyVars, smoothVars, analyticsVars,
                 searchVars>>

SlugInit ==
  /\ slugText \in SlugInputs
  /\ slugOnce = <<>>
  /\ slugTwice = <<>>
  /\ slugStep = 0

\* generateId not under study
SlugIdle ==
  /\ slugText = <<>>
  /\ slugOnce = <<>>
  /\ slugTwice = <<>>
  /\ slugStep = 0

----------------------------------------------------------------------------
\* The content region (.markdown-section) as the host renders it: a flat
\* sequence of child nodes.  A node is a record
\*   kind     "p", "h1", "h2", "h3", "other" (any other node, text nodes
\*            included) or "toc" (a nav.table-of-contents)
\*   id       the id attribute ("" = <<>> when absent)
\*   text     the node's own text
\*   links    the number of button.copy-link children
\*   entries  for a toc: its list entries [href, text, indent]

LinkIcon == "LINK"      \* the character of the copy button's label

Node(k, i, t) == [kind |-> k, id |-> i, text |-> t, links |-> 0,
                  entries |-> <<>>]

\* what the host may render at a position: a paragraph, another node, or a
\* heading of level 1..3 with or without an id; heading texts and ids differ
\* from position to position
Templates == {"p", "other", "h1", "h2", "h2#", "h3", "h3#"}

Rendered(t, pos) ==
  CASE t = "p"     -> Node("p", <<>>, <<>>)
    [] t = "other" -> Node("other", <<>>, <<>>)
    [] t = "h1"    -> Node("h1", <<>>, <<"T", DigitChars[pos + 1]>>)
    [] t = "h2"    -> Node("h2", <<>>, <<"S", " ", DigitChars[pos + 1]>>)
    [] t = "h2#"   -> Node("h2", <<"x", DigitChars[pos + 1]>>,
                           <<"S", " ", DigitChars[pos + 1]>>)
    [] t = "h3"    -> Node("h3", <<>>, <<"S", " ", DigitChars[pos + 1]>>)
    [] t = "h3#"   -> Node("h3", <<"x", DigitChars[pos + 1]>>,
                           <<"S", " ", DigitChars[pos + 1]>>)

ContentLayouts ==
  { [i \in 1..Len(lay) |-> Rendered(lay[i], i)] :
      lay \in UNION {[1..k -> Templates] : k \in 0..MaxNodes} }

\* heading.textContent: the heading's text and the labels of the copy
\* buttons appended inside it
textContent(n) == n.text \o [j \in 1..n.links |-> LinkIcon]

\* indices, in document order, of the nodes of the kinds `kinds`
Indices(ns, kinds) ==
  SelectSeq([i \in 1..Len(ns) |-> i], LAMBDA i : ns[i].kind \in kinds)

\* querySelector: index of the first node of the kinds, 0 for null
First(ns, kinds) ==
  IF Indices(ns, kinds) = <<>> THEN 0 ELSE Head(Indices(ns, kinds))

TocCount(ns) == Len(Indices(ns, {"toc"}))

addCopyLinks_NoDecoratedCheck(ns) ==
  [i \in 1..Len(ns) |->
     IF ns[i].kind \in {"h2", "h3"} /\ ns[i].id # <<>>
     THEN [ns[i] EXCEPT !.links = @ + 1]
     ELSE ns[i]]

\* addCopyLinks(): one button into every h2/h3 that has an id and holds no
\* .copy-link yet
addCopyLinks(ns) ==
  [i \in 1..Len(ns) |->
     IF ns[i].kind \in {"h2", "h3"} /\ ns[i].id # <<>> /\ ns[i].links = 0
     THEN [ns[i] EXCEPT !.links = @ + 1]
     ELSE ns[i]]

\* createTOCList, first half of the loop body: a heading without id gets
\* generateId(textContent)
assignIds(ns) ==
  [i \in 1..Len(ns) |->
     IF ns[i].kind \in {"h2", "h3"} /\ ns[i].id = <<>>
     THEN [ns[i] EXCEPT !.id = generateId(textContent(ns[i]))]
     ELSE ns[i]]

createTOCList_IndentAll(ns) ==
  [k \in 1..Len(Indices(ns, {"h2", "h3"})) |->
     LET h == assignIds(ns)[Indices(ns, {"h2", "h3"})[k]]
     IN [href |-> <<"#">> \o h.id, text |-> textContent(h), indent |-> TRUE]]

\* createTOCList, second half: one entry per heading, in document order
createTOCList(ns) ==
  [k \in 1..Len(Indices(ns, {"h2", "h3"})) |->
     LET h == assignIds(ns)[Indices(ns, {"h2", "h3"})[k]]
     IN [href |-> <<"#">> \o h.id, text |-> textContent(h),
         indent |-> (h.kind = "h3")]]

\* firstP || firstH (lines 318-320): index of the node to insert after
insertAfter(ns) ==
  IF First(ns, {"p"}) # 0 THEN First(ns, {"p"}) ELSE First(ns, {"h1", "h2"})

\* insertAfter && insertAfter.nextSibling (line 322)
canInsert(ns) == insertAfter(ns) # 0 /\ insertAfter(ns) < Len(ns)

TocNode(list) == [kind |-> "toc", id |-> <<>>, text |-> <<>>, links |-> 0,
                  entries |-> list]

\* parentNode.insertBefore(toc, insertAfter.nextSibling)
insertToc(ns, list) ==
  SubSeq(ns, 1, insertAfter(ns)) \o <<TocNode(list)>>
    \o SubSeq(ns, insertAfter(ns) + 1, Len(ns))

\* generateTOC(): nothing without the region or with fewer than 3 h2/h3;
\* else build the list (assigning ids) and insert the block if it can
generateTOC ==
  IF ~contentPresent \/ Len(Indices(nodes, {"h2", "h3"})) < 3
  THEN /\ nodes' = nodes
       /\ builtList' = <<>>
  ELSE /\ builtList' = createTOCList(nodes)
       /\ nodes' = IF canInsert(nodes)
                   THEN insertToc(assignIds(nodes), createTOCList(nodes))
                   ELSE assignIds(nodes)

ContentOthers ==
  UNCHANGED <<themeVars, progVars, slugVars, copyVars, smoothVars,
              analyticsVars, searchVars, userToggled, initialStored, ranWithNav>>

\* the 1000 ms timer of initializeBlog (lines 523-527): new LinkCopier()
\* and new TableOfContents() set their timers
ContentStart ==
  /\ ~contentStarted
  /\ contentStarted' = TRUE
  /\ linkTimer' = TRUE
  /\ tocTimer' = TRUE
  /\ prevNodes' = nodes
  /\ Record("content-start")
  /\ UNCHANGED <<contentPresent, nodes, builtList, reinvokes>>
  /\ ContentOthers

\* LinkCopier's timer fires
LinkTimerFires ==
  /\ linkTimer
  /\ linkTimer' = FALSE
  /\ nodes' = addCopyLinks(nodes)
  /\ prevNodes' = nodes
  /\ Record("addCopyLinks")
  /\ UNCHANGED <<contentPresent, builtList, contentStarted, tocTimer,
                 reinvokes>>
  /\ ContentOthers

\* TableOfContents' timer fires; it was set after LinkCopier's, with a
\* longer delay, so it fires after it
TocTimerFires ==
  /\ tocTimer
  /\ ~linkTimer
  /\ tocTimer' = FALSE
  /\ generateTOC
  /\ prevNodes' = nodes
  /\ Record("generateTOC")
  /\ UNCHANGED <<contentPresent, contentStarted, linkTimer, reinvokes>>
  /\ ContentOthers

\* addCopyLinks() called again on the same content
AddCopyLinksAgain ==
  /\ contentStarted
  /\ reinvokes < MaxReinvoke
  /\ reinvokes' = reinvokes + 1
  /\ nodes' = addCopyLinks(nodes)
  /\ prevNodes' = nodes
  /\ Record("addCopyLinks")
  /\ UNCHANGED <<contentPresent, builtList, contentStarted, linkTimer,
                 tocTimer>>
  /\ ContentOthers

\* generateTOC() called again on the same content
GenerateTOCAgain ==
  /\ contentStarted
  /\ reinvokes < MaxReinvoke
  /\ reinvokes' = reinvokes + 1
  /\ generateTOC
  /\ prevNodes' = nodes
  /\ Record("generateTOC")
  /\ UNCHANGED <<contentPresent, contentStarted, linkTimer, tocTimer>>
  /\ ContentOthers

\* The page when the 1000 ms timer of initializeBlog fires: the region not
\* rendered yet, or rendered with any layout
ContentInit ==
  /\ contentPresent \in BOOLEAN
  /\ nodes \in (IF contentPresent THEN ContentLayouts ELSE {<<>>})
  /\ builtList = <<>>
  /\ contentStarted = FALSE
  /\ linkTimer = FALSE
  /\ tocTimer = FALSE
  /\ reinvokes = 0
  /\ prevNodes = <<>>

\* LinkCopier and TableOfContents not under study
ContentIdle ==
  /\ contentPresent = FALSE
  /\ nodes = <<>>
  /\ builtList = <<>>
  /\ contentStarted = FALSE
  /\ linkTimer = FALSE
  /\ tocTimer = FALSE
  /\ reinvokes = 0
  /\ prevNodes = <<>>

----------------------------------------------------------------------------
\* LinkCopier.copyLink on one heading's copy button

\* the heading the button belongs to
CopyHeadingId == <<"i", "n", "t", "r", "o">>

\* `${origin}${pathname}#${headingId}` (line 256)
copyUrl(headingId) == <<"origin", "pathname", "#">> \o headingId

\* How one copyLink call can go: writeText resolves; or it fails (rejects,
\* or navigator.clipboard is missing) and execCommand('copy') in
\* fallbackCopy copies, returns false, or throws
CopyOutcomes == {"written", "fallback-copied", "fallback-false",
                 "fallback-throws"}

\* showCopyFeedback(button, icon): capture the current innerHTML, show the
\* success icon, set a timer that restores what was captured
showCopyFeedback ==
  /\ btnIcon' = "check"
  /\ btnColor' = "success"
  /\ feedbackTimers' = Append(feedbackTimers, btnIcon)

CopyOthers ==
  UNCHANGED <<themeVars, progVars, slugVars, contentVars, smoothVars,
              analyticsVars, searchVars, userToggled, initialStored, ranWithNav>>

\* click on the copy button: copyLink starts and awaits writeText
CopyClick ==
  /\ copyClicks < MaxClicks
  /\ copyClicks' = copyClicks + 1
  /\ copyInflight' = copyInflight + 1
  /\ Record("copy-click")
  /\ UNCHANGED <<btnIcon, btnColor, feedbackTimers, clipboard,
                 strayTextAreas, copyUncaught, lastOutcome, lastFeedback>>
  /\ CopyOthers

\* a copyLink call resumes after writeText settled (lines 258-265).  The
\* return value of execCommand is dropped; an exception of fallbackCopy
\* leaves the catch block before textArea.remove() and showCopyFeedback.
CopySettles ==
  /\ copyInflight >= 1
  /\ copyInflight' = copyInflight - 1
  /\ \E outcome \in CopyOutcomes :
       /\ lastOutcome' = outcome
       /\ clipboard' = IF outcome \in {"written", "fallback-copied"}
                       THEN copyUrl(CopyHeadingId) ELSE clipboard
       /\ IF outcome = "fallback-throws"
          THEN /\ strayTextAreas' = strayTextAreas + 1
               /\ copyUncaught' = TRUE
               /\ lastFeedback' = FALSE
               /\ UNCHANGED <<btnIcon, btnColor, feedbackTimers>>
          ELSE /\ showCopyFeedback
               /\ lastFeedback' = TRUE
               /\ UNCHANGED <<strayTextAreas, copyUncaught>>
  /\ Record("copy-settled")
  /\ UNCHANGED copyClicks
  /\ CopyOthers

\* the oldest 2000 ms timer of showCopyFeedback fires (lines 286-289)
FeedbackTimerFires ==
  /\ feedbackTimers # <<>>
  /\ btnIcon' = Head(feedbackTimers)
  /\ btnColor' = "secondary"
  /\ feedbackTimers' = Tail(feedbackTimers)
  /\ Record("feedback-timer")
  /\ UNCHANGED <<copyInflight, copyClicks, clipboard, strayTextAreas,
                 copyUncaught, lastOutcome, lastFeedback>>
  /\ CopyOthers

\* a copy button as addCopyLinks created it; anything may be on the clipboard
CopyInit ==
  /\ btnIcon = "link"
  /\ btnColor = "secondary"
  /\ feedbackTimers = <<>>
  /\ copyInflight = 0
  /\ copyClicks = 0
  /\ clipboard \in {<<>>, <<"o", "l", "d">>}
  /\ strayTextAreas = 0
  /\ copyUncaught = FALSE
  /\ lastOutcome = "none"
  /\ lastFeedback = FALSE

\* copy buttons not under study
CopyIdle ==
  /\ btnIcon = "link"
  /\ btnColor = "secondary"
  /\ feedbackTimers = <<>>
  /\ copyInflight = 0
  /\ copyClicks = 0
  /\ clipboard = <<>>
  /\ strayTextAreas = 0
  /\ copyUncaught = FALSE
  /\ lastOutcome = "none"
  /\ lastFeedback = FALSE

----------------------------------------------------------------------------
\* SmoothScroll: the document's click listener

\* the height of the fixed header subtracted from the scroll target
HeaderOffset == 80

\* What a click can hit:
\*   "not-anchor"  nothing inside an a[href^="#"]
\*   "bare"        a link with href "#"
\*   "resolves"    href "#id", querySelector finds the element
\*   "missing"     href "#id", querySelector finds nothing
\*   "invalid"     an href that is no valid selector (such as "#/posts/x" or
\*                 "#1-intro"): querySelector throws a SyntaxError
ClickKinds == {"not-anchor", "bare", "resolves", "missing", "invalid"}

\* viewport-relative tops of a target, and scroll positions, in pixels
TargetTops    == {0 - 300, 0, 80, 250, 900}
SmoothOffsets == {0, 40, 600, 2000}

\* the listener of SmoothScroll.init for a click of kind `kind` on a link
\* whose target (if any) is at `top`
clickListener(kind, top) ==
  IF kind \in {"not-anchor", "bare"}
  THEN /\ defaultPrevented' = FALSE
       /\ scrollIssued' = <<>>
       /\ smoothUncaught' = smoothUncaught
  ELSE /\ defaultPrevented' = TRUE
       /\ scrollIssued' = IF kind = "resolves"
                          THEN <<top + pageYOffset - HeaderOffset>>
                          ELSE <<>>
       /\ smoothUncaught' = (smoothUncaught \/ kind = "invalid")

SmoothOthers ==
  UNCHANGED <<themeVars, slugVars, contentVars, copyVars, analyticsVars,
              searchVars, userToggled, initialStored, ranWithNav>>

\* the user clicks somewhere in the document
AnchorClick ==
  /\ \E kind \in ClickKinds :
       \E top \in (IF kind = "resolves" THEN TargetTops ELSE {0}) :
          /\ clickKind' = kind
          /\ targetTop' = top
          /\ clickListener(kind, top)
  /\ Record("anchor-click")
  /\ UNCHANGED progVars
  /\ SmoothOthers

\* the page is at another scroll position
SmoothUserScroll ==
  /\ \E y \in SmoothOffsets :
       /\ y # pageYOffset
       /\ pageYOffset' = y
  /\ Record("user-scroll")
  /\ UNCHANGED <<progStarted, barCount, scrollHeight, innerHeight, ticking,
                 rafPending, progressWidth>>
  /\ UNCHANGED smoothVars
  /\ SmoothOthers

\* the page after `new SmoothScroll()` (line 520), at any scroll position;
\* ReadingProgress is left out
SmoothInit ==
  /\ clickKind = "none"
  /\ targetTop = 0
  /\ defaultPrevented = FALSE
  /\ scrollIssued = <<>>
  /\ smoothUncaught = FALSE
  /\ pageYOffset \in SmoothOffsets
  /\ progStarted = FALSE
  /\ barCount = 0
  /\ innerHeight = 1
  /\ scrollHeight = 1
  /\ ticking = FALSE
  /\ rafPending = 0
  /\ progressWidth = NoWidth

\* SmoothScroll not under study
SmoothIdle ==
  /\ clickKind = "none"
  /\ targetTop = 0
  /\ defaultPrevented = FALSE
  /\ scrollIssued = <<>>
  /\ smoothUncaught = FALSE

----------------------------------------------------------------------------
\* Analytics: page views and search usage

\* pathname + hash values the page can be at
Locations == {"/", "/#/posts/a", "/#/posts/a?id=intro", "/#/posts/b"}

PageViewLine(path) == [event |-> "page-view", detail |-> path]
SearchLine == [event |-> "search", detail |-> ""]

\* trackPageView(): log the current location unless this.pageViews has it
trackPageView ==
  IF location \notin pageViews
  THEN /\ pageViews' = pageViews \cup {location}
       /\ sink' = Append(sink, PageViewLine(location))
  ELSE UNCHANGED <<pageViews, sink>>

AnalyticsOthers_WritesStorage ==
  /\ stored' = "light"
  /\ UNCHANGED <<started, storageOK, sysDark, currentTheme, attr, navPresent,
                 toggleCount, toggleIcon, toggleLabel, retryTimers, listening,
                 uncaught>>
  /\ UNCHANGED <<progVars, slugVars, contentVars, copyVars, smoothVars,
                 searchVars, userToggled, initialStored, ranWithNav>>

\* what the handlers of Analytics leave alone: everything but its own state
AnalyticsOthers ==
  UNCHANGED <<themeVars, progVars, slugVars, contentVars, copyVars,
              smoothVars, searchVars, userToggled, initialStored, ranWithNav>>

\* new Analytics() (line 532): init() calls trackPageView once and
\* registers the input listener (and the theme observer)
AnalyticsStart ==
  /\ ~analyticsStarted
  /\ analyticsStarted' = TRUE
  /\ trackPageView
  /\ visited' = {location}
  /\ Record("analytics-start")
  /\ UNCHANGED <<location, searchCount>>
  /\ AnalyticsOthers

\* the user follows a link to another path or fragment; the page is not
\* reloaded and no code of Analytics listens for it
Navigate ==
  /\ \E l \in Locations :
       /\ l # location
       /\ location' = l
       /\ visited' = IF analyticsStarted THEN visited \cup {l} ELSE visited
  /\ Record("navigate")
  /\ UNCHANGED <<analyticsStarted, pageViews, sink, searchCount>>
  /\ AnalyticsOthers

\* an input event on .search input: the listener of trackSearchUsage
SearchInput ==
  /\ analyticsStarted
  /\ searchCount < MaxInputs
  /\ searchCount' = searchCount + 1
  /\ sink' = IF searchCount + 1 = 1 THEN Append(sink, SearchLine) ELSE sink
  /\ Record("search-input")
  /\ UNCHANGED <<analyticsStarted, location, pageViews, visited>>
  /\ AnalyticsOthers

\* the page before `new Analytics()`, at any location
AnalyticsInit ==
  /\ analyticsStarted = FALSE
  /\ location \in Locations
  /\ pageViews = {}
  /\ sink = <<>>
  /\ searchCount = 0
  /\ visited = {}

\* Analytics not under study
AnalyticsIdle ==
  /\ analyticsStarted = FALSE
  /\ location = "/"
  /\ pageViews = {}
  /\ sink = <<>>
  /\ searchCount = 0
  /\ visited = {}

\* the components other than ThemeManager and ReadingProgress not under study
\* Analytics next to the ThemeManager: the MutationObserver of
\* trackThemePreference.  Its callback runs when the handler that called
\* setAttribute returns, before any other handler, so it is part of the
\* same step.

ThemeLine(theme) == [event |-> "theme", detail |-> theme]

\* the observer's callback (lines 499-506) after a handler that did
\* (setsAttr) or did not call setAttribute('data-color-scheme', ...): one
\* line with the attribute as it is now; the observer exists once the
\* Analytics constructor has run
themeObserver(setsAttr) ==
  sink' = IF analyticsStarted /\ setsAttr
          THEN Append(sink, ThemeLine(attr'))
          ELSE sink

\* what a ThemeManager handler and the observer's callback leave alone
ObservedOthers ==
  UNCHANGED <<progVars, slugVars, contentVars, copyVars, smoothVars,
              searchVars, analyticsStarted, location, pageViews, searchCount,
              visited>>

\* click on #theme-toggle while Analytics may be observing
ObservedToggleClick ==
  /\ analyticsStarted => Len(sink) < MaxSink
  /\ ToggleClickStep
  /\ themeObserver(TRUE)
  /\ ObservedOthers

\* the system colour scheme flips while Analytics may be observing; the
\* listener calls setAttribute only when no theme is stored
ObservedSystemChange ==
  /\ analyticsStarted => Len(sink) < MaxSink
  /\ SystemChangeStep
  /\ themeObserver(~Truthy(getStoredTheme))
  /\ ObservedOthers

\* the 2000 ms timer of initializeBlog (lines 530-533) fires: new
\* Analytics(); new ThemeManager() ran at line 518, before the timer was set
ObservedAnalyticsStart ==
  /\ started
  /\ AnalyticsStart

----------------------------------------------------------------------------
\* SearchEnhancer: the one delayed attempt to enhance the search box

\* the placeholder enhanceSearch sets (line 201)
ShortcutHint == "Search posts... (Ctrl+K)"

\* key presses: Ctrl/Cmd+K, a plain k, Escape
Keys == {"mod+k", "k", "escape"}

SearchOthers ==
  UNCHANGED <<themeVars, progVars, slugVars, contentVars, copyVars,
              smoothVars, analyticsVars, userToggled, initialStored,
              ranWithNav>>

enhanceSearch_Retry ==
  IF ~searchInput
  THEN searchTimer' = TRUE /\ UNCHANGED <<keyHandlers, placeholder>>
  ELSE /\ searchTimer' = FALSE
       /\ keyHandlers' = keyHandlers + 1
       /\ placeholder' = ShortcutHint

\* enhanceSearch(), run by the timer: return when the input is absent, else
\* register one keydown listener and set the placeholder; no timer is set
enhanceSearch ==
  IF ~searchInput
  THEN searchTimer' = FALSE /\ UNCHANGED <<keyHandlers, placeholder>>
  ELSE /\ searchTimer' = FALSE
       /\ keyHandlers' = keyHandlers + 1
       /\ placeholder' = ShortcutHint

\* the keydown listener of lines 189-198 for a key: Ctrl/Cmd+K prevents the
\* default and focuses the input; Escape blurs the input when it has focus
keydownListener(key) ==
  /\ keyPrevented' = (key = "mod+k")
  /\ searchFocused' = IF key = "mod+k" THEN TRUE
                      ELSE IF key = "escape" THEN FALSE
                      ELSE searchFocused
  /\ shortcutFocused' = (shortcutFocused \/ key = "mod+k")

\* new SearchEnhancer() (line 524): init() sets the 1000 ms timer
SearchStart ==
  /\ ~searchStarted
  /\ searchStarted' = TRUE
  /\ searchTimer' = TRUE
  /\ Record("search-start")
  /\ UNCHANGED <<searchInput, keyHandlers, placeholder, searchFocused,
                 lastKey, keyPrevented, attemptSaw, shortcutFocused>>
  /\ SearchOthers

\* the timer of line 179 fires: enhanceSearch()
SearchTimerFires ==
  /\ searchTimer
  /\ enhanceSearch
  /\ attemptSaw' = IF attemptSaw # "none" THEN attemptSaw
                   ELSE IF searchInput THEN "present" ELSE "absent"
  /\ Record("search-timer")
  /\ UNCHANGED <<searchStarted, searchInput, searchFocused, lastKey,
                 keyPrevented, shortcutFocused>>
  /\ SearchOthers

\* the host renders the search box (it renders it once and keeps it)
SearchInputAppears ==
  /\ ~searchInput
  /\ searchInput' = TRUE
  /\ Record("search-box")
  /\ UNCHANGED <<searchStarted, searchTimer, keyHandlers, placeholder,
                 searchFocused, lastKey, keyPrevented, attemptSaw,
                 shortcutFocused>>
  /\ SearchOthers

\* the user presses a key: every registered keydown listener runs
KeyDown ==
  /\ \E key \in Keys :
       /\ lastKey' = key
       /\ IF keyHandlers >= 1
          THEN keydownListener(key)
          ELSE /\ keyPrevented' = FALSE
               /\ UNCHANGED <<searchFocused, shortcutFocused>>
  /\ Record("keydown")
  /\ UNCHANGED <<searchStarted, searchTimer, searchInput, keyHandlers,
                 placeholder, attemptSaw>>
  /\ SearchOthers

\* the user clicks into the search box, or out of it
SearchFocusClick ==
  /\ searchInput
  /\ searchFocused' = ~searchFocused
  /\ Record("focus-click")
  /\ UNCHANGED <<searchStarted, searchTimer, searchInput, keyHandlers,
                 placeholder, lastKey, keyPrevented, attemptSaw,
                 shortcutFocused>>
  /\ SearchOthers

\* the page before `new SearchEnhancer()`: the search box rendered or not
SearchInit ==
  /\ searchStarted = FALSE
  /\ searchTimer = FALSE
  /\ searchInput \in BOOLEAN
  /\ keyHandlers = 0
  /\ placeholder = ""
  /\ searchFocused = FALSE
  /\ lastKey = "none"
  /\ keyPrevented = FALSE
  /\ attemptSaw = "none"
  /\ shortcutFocused = FALSE

\* SearchEnhancer not under study
SearchIdle ==
  /\ searchStarted = FALSE
  /\ searchTimer = FALSE
  /\ searchInput = FALSE
  /\ keyHandlers = 0
  /\ placeholder = ""
  /\ searchFocused = FALSE
  /\ lastKey = "none"
  /\ keyPrevented = FALSE
  /\ attemptSaw = "none"
  /\ shortcutFocused = FALSE

----------------------------------------------------------------------------
LaterIdle ==
  /\ SlugIdle /\ ContentIdle /\ CopyIdle /\ SmoothIdle /\ AnalyticsIdle
  /\ SearchIdle

----------------------------------------------------------------------------
\* Specifications

InitTheme == ThemeInit /\ ProgIdle /\ HistInit /\ LaterIdle

NextTheme ==
  \/ Startup
  \/ ToggleClick
  \/ SystemChange
  \/ NavAppears
  \/ RetryTimer

SpecTheme == InitTheme /\ [][NextTheme]_vars

\* setTimeout callbacks always run after their delay
SpecThemeFair == SpecTheme /\ WF_vars(Startup) /\ WF_vars(RetryTimer)

NextThemeReinvoke ==
  \/ Startup
  \/ ToggleClick
  \/ SystemChange
  \/ NavAppears
  \/ RetryTimer
  \/ CreateThemeToggleAgain

SpecThemeReinvoke == InitTheme /\ [][NextThemeReinvoke]_vars

InitProgress == ThemeIdle /\ ProgInit /\ HistInit /\ LaterIdle

NextProgress ==
  \/ ProgressStart
  \/ ScrollEvent
  \/ LayoutChange
  \/ Frame

SpecProgress == InitProgress /\ [][NextProgress]_vars

NextProgressReinvoke ==
  \/ NextProgress
  \/ CreateProgressBarAgain

SpecProgressReinvoke == InitProgress /\ [][NextProgressReinvoke]_vars

InitSlug ==
  /\ ThemeIdle /\ ProgIdle /\ HistInit
  /\ SlugInit /\ ContentIdle /\ CopyIdle /\ SmoothIdle /\ AnalyticsIdle
  /\ SearchIdle

NextSlug ==
  \/ Slugify
  \/ SlugifyAgain

SpecSlug == InitSlug /\ [][NextSlug]_vars

InitContent ==
  /\ ThemeIdle /\ ProgIdle /\ HistInit
  /\ SlugIdle /\ ContentInit /\ CopyIdle /\ SmoothIdle /\ AnalyticsIdle
  /\ SearchIdle

NextContent ==
  \/ ContentStart
  \/ LinkTimerFires
  \/ TocTimerFires

SpecContent == InitContent /\ [][NextContent]_vars

NextContentReinvoke ==
  \/ ContentStart
  \/ LinkTimerFires
  \/ TocTimerFires
  \/ AddCopyLinksAgain
  \/ GenerateTOCAgain

SpecContentReinvoke == InitContent /\ [][NextContentReinvoke]_vars

InitCopy ==
  /\ ThemeIdle /\ ProgIdle /\ HistInit
  /\ SlugIdle /\ ContentIdle /\ CopyInit /\ SmoothIdle /\ AnalyticsIdle
  /\ SearchIdle

NextCopy ==
  \/ CopyClick
  \/ CopySettles
  \/ FeedbackTimerFires

SpecCopy == InitCopy /\ [][NextCopy]_vars

InitSmooth ==
  /\ ThemeIdle /\ HistInit
  /\ SlugIdle /\ ContentIdle /\ CopyIdle /\ SmoothInit /\ AnalyticsIdle
  /\ SearchIdle

NextSmooth ==
  \/ AnchorClick
  \/ SmoothUserScroll

SpecSmooth == InitSmooth /\ [][NextSmooth]_vars

InitAnalytics ==
  /\ ThemeIdle /\ ProgIdle /\ HistInit
  /\ SlugIdle /\ ContentIdle /\ CopyIdle /\ SmoothIdle /\ AnalyticsInit
  /\ SearchIdle

NextAnalytics ==
  \/ AnalyticsStart
  \/ Navigate
  \/ SearchInput

SpecAnalytics == InitAnalytics /\ [][NextAnalytics]_vars

InitObserved ==
  /\ ThemeInit /\ ProgIdle /\ HistInit
  /\ SlugIdle /\ ContentIdle /\ CopyIdle /\ SmoothIdle /\ SearchIdle
  /\ AnalyticsInit

NextObserved ==
  \/ Startup
  \/ NavAppears
  \/ RetryTimer
  \/ ObservedToggleClick
  \/ ObservedSystemChange
  \/ ObservedAnalyticsStart
  \/ Navigate
  \/ SearchInput

SpecObserved == InitObserved /\ [][NextObserved]_vars

InitSearch ==
  /\ ThemeIdle /\ ProgIdle /\ HistInit
  /\ SlugIdle /\ ContentIdle /\ CopyIdle /\ SmoothIdle /\ AnalyticsIdle
  /\ SearchInit

NextSearch ==
  \/ SearchStart
  \/ SearchTimerFires
  \/ SearchInputAppears
  \/ KeyDown
  \/ SearchFocusClick

SpecSearch == InitSearch /\ [][NextSearch]_vars

----------------------------------------------------------------------------
\* Properties of the ThemeManager

\* C1: once the user has toggled the theme, a system colour-scheme change
\* leaves the document theme attribute and the in-memory theme as they
\* were, with a working storage and with one that throws on every access.
C1_SystemChangeKeepsUserTheme ==
  (lastOp = "system" /\ userToggled) =>
      (attr = prevAttr /\ currentTheme = prevCur)

\* C2: with no persisted preference at startup and no toggle by the user, a
\* system colour-scheme change sets the effective theme to the new system
\* value; and the persisted preference is written by a user toggle only.
C2_SystemChangeAppliesWithoutUserChoice ==
  /\ (lastOp = "system" /\ ~userToggled /\ initialStored = NULL) =>
        (attr = getSystemPreference(sysDark) /\ currentTheme = attr)
  /\ (started /\ ~userToggled /\ initialStored = NULL /\ storageOK) =>
        stored = NULL

\* C3 (as stated): right after startup the theme is the stored value
\* whenever one is present, whatever the system signal, and otherwise dark
\* or light as the system signal says.
C3_InitialThemeStoredWhenPresent ==
  lastOp = "startup" =>
      /\ (initialStored # NULL =>
             (currentTheme = initialStored /\ attr = initialStored))
      /\ (initialStored = NULL /\ sysDark =>
             (currentTheme = "dark" /\ attr = "dark"))
      /\ (initialStored = NULL /\ ~sysDark =>
             (currentTheme = "light" /\ attr = "light"))

\* C3 (amended): right after startup the theme is the stored value whenever
\* a non-empty one is present, whatever the system signal; with no stored
\* value, or the empty string stored, it is dark or light as the system
\* signal says.
C3_InitialThemeStoredWhenNonEmpty ==
  lastOp = "startup" =>
      /\ (initialStored \notin {NULL, ""} =>
             (currentTheme = initialStored /\ attr = initialStored))
      /\ (initialStored \in {NULL, ""} /\ sysDark =>
             (currentTheme = "dark" /\ attr = "dark"))
      /\ (initialStored \in {NULL, ""} /\ ~sysDark =>
             (currentTheme = "light" /\ attr = "light"))

\* a stored "light" wins over a system signal of dark at startup
C3_Witness ==
  lastOp = "startup" /\ initialStored = "light" /\ sysDark /\ attr = "light"

\* C4: in every state after startup the document theme attribute and the
\* in-memory theme are light or dark, whatever string storage held.
C4_ThemeAlwaysValid ==
  started => (attr \in Themes /\ currentTheme \in Themes)

\* C5: after two toggles in succession the document theme attribute is what
\* it was before the first of them.
C5_ToggleTwiceRestores ==
  (lastOp = "toggle" /\ prevOp = "toggle") => attr = prev2Attr

\* C6: with a storage that throws on every access no exception escapes
\* startup, toggle or system-change handling; startup and a system change
\* leave attribute and in-memory theme at the system's theme, and a toggle
\* flips them.
C6_StorageFailureSwallowed ==
  ~storageOK =>
      /\ ~uncaught
      /\ (started => currentTheme = attr)
      /\ (lastOp \in {"startup", "system"} =>
             attr = (IF sysDark THEN "dark" ELSE "light"))
      /\ (lastOp = "toggle" /\ prevAttr = "dark" => attr = "light")
      /\ (lastOp = "toggle" /\ prevAttr = "light" => attr = "dark")
      /\ (lastOp = "toggle" => prevAttr \in Themes)

\* storage throws; the user toggled and then the system scheme changed
C6_Witness ==
  ~storageOK /\ lastOp = "system" /\ prevOp = "toggle" /\ attr # prevAttr

\* C9: the document never holds more than one theme toggle button, and
\* holds exactly one once addToggle has run with .app-nav present, however
\* often createThemeToggle is called and whenever .app-nav appears.
C9_ToggleSingleton ==
  /\ toggleCount <= 1
  /\ (ranWithNav => toggleCount = 1)

\* createThemeToggle was called twice more with .app-nav present
C9_Witness ==
  /\ lastOp = "create" /\ prevOp = "create"
  /\ navPresent /\ ranWithNav /\ toggleCount = 1

\* C10: under fair timer firing, once .app-nav is present the toggle is
\* eventually inserted; and as long as .app-nav has not appeared a retry
\* timer stays pending and no toggle exists.
C10_ToggleEventuallyInserted ==
  /\ (started /\ navPresent) ~> (toggleCount = 1)
  /\ [](started /\ ~navPresent => retryTimers >= 1 /\ toggleCount = 0)

\* .app-nav was absent at startup, appeared, and a retry inserted the toggle
C10_Witness ==
  /\ lastOp = "timer" /\ toggleCount = 1 /\ navPresent
  /\ retryTimers = 0 /\ ranWithNav

----------------------------------------------------------------------------
\* Properties of ReadingProgress

\* C7: the value written to the progress bar's width is always a number in
\* [0, 100], and is 0 when a frame callback runs with the document exactly
\* as tall as the viewport.
C7_ProgressWidthInRange ==
  progStarted =>
      /\ progressWidth[1] = "num"
      /\ progressWidth[2] >= 0 /\ progressWidth[2] <= 100
      /\ (lastOp = "frame" /\ scrollHeight = innerHeight =>
             progressWidth = Num(0))

\* C8: at most one animation-frame request is pending at any time, so any
\* number of scroll events between two frames costs one recomputation; and
\* after every scroll event, also one that follows a frame callback, a
\* recomputation is pending.
C8_FrameCoalescing ==
  /\ rafPending <= 1
  /\ (lastOp = "scroll" => rafPending = 1)

\* a scroll event right after a frame callback has requested a new frame
C8_Witness ==
  lastOp = "scroll" /\ prevOp = "frame" /\ rafPending = 1 /\ ticking

----------------------------------------------------------------------------
\* Properties of generateId

IsPrefixAt(text, i, a, b) ==
  i + 1 <= Len(text) /\ text[i] = a /\ text[i + 1] = b

\* C14: applying generateId to its own result changes nothing, for every
\* text of the bounded alphabet; and "Hello, World!! 2024" becomes
\* "hello-world-2024".
C14_SlugIdempotent ==
  /\ (slugStep = 2 => slugTwice = slugOnce)
  /\ (slugStep >= 1 /\ slugText = HelloText =>
        slugOnce = <<"h", "e", "l", "l", "o", "-", "w", "o", "r", "l", "d",
                     "-", "2", "0", "2", "4">>)

\* generateId has been applied twice to a text it had to rewrite
C14_Witness ==
  /\ slugStep = 2
  /\ slugText = <<"a", " ", "-", "B">>
  /\ slugOnce = <<"a", "-", "b">>
  /\ slugTwice = slugOnce

\* C15: the result of generateId neither begins nor ends with a hyphen or a
\* whitespace character, and holds no two hyphens in a row.
C15_SlugEdgesTrimmed ==
  slugStep >= 1 =>
      /\ (slugOnce # <<>> =>
             /\ slugOnce[1] \notin ({"-"} \cup Whitespace)
             /\ slugOnce[Len(slugOnce)] \notin ({"-"} \cup Whitespace))
      /\ \A i \in 1..Len(slugOnce) : ~IsPrefixAt(slugOnce, i, "-", "-")

----------------------------------------------------------------------------
\* Properties of TableOfContents and LinkCopier.addCopyLinks

HeadingCount(ns) == Len(Indices(ns, {"h2", "h3"}))

\* a toc is the node right after position i
TocRightAfter(ns, i) == i + 1 <= Len(ns) /\ ns[i + 1].kind = "toc"

\* C11: after generateTOC has run twice in a row on a region with at least 3
\* h2/h3 headings and a node to insert after that has a next sibling, the
\* region holds exactly one outline block.
C11_OutlineInsertedOnce ==
  ( /\ lastOp = "generateTOC" /\ prevOp = "generateTOC"
    /\ HeadingCount(nodes) >= 3
    /\ canInsert(nodes) )
  => TocCount(nodes) = 1

\* C12: after generateTOC has run on a region with at least 3 h2/h3
\* headings, the outline block sits right after the first paragraph if the
\* region holds one (also when the paragraph is its last node), else right
\* after the first h1/h2 if there is one, else no block was inserted.
C12_OutlineInsertionPoint ==
  (lastOp = "generateTOC" /\ HeadingCount(prevNodes) >= 3) =>
      IF First(prevNodes, {"p"}) # 0
      THEN TocCount(nodes) = 1 /\ TocRightAfter(nodes, First(prevNodes, {"p"}))
      ELSE IF First(prevNodes, {"h1", "h2"}) # 0
           THEN /\ TocCount(nodes) = 1
                /\ TocRightAfter(nodes, First(prevNodes, {"h1", "h2"}))
           ELSE TocCount(nodes) = 0

\* C13: generateTOC on fewer than 3 h2/h3 headings changes nothing (no
\* block, no id assigned); on 3 or more the list it builds has one entry per
\* h2/h3 heading, in document order, the k-th linking to '#' + the id of the
\* k-th heading, indented exactly when that heading is an h3.
C13_OutlineThresholdAndOrder ==
  lastOp = "generateTOC" =>
      IF HeadingCount(prevNodes) < 3
      THEN nodes = prevNodes /\ builtList = <<>>
      ELSE /\ Len(builtList) = HeadingCount(nodes)
           /\ \A k \in 1..Len(builtList) :
                LET h == nodes[Indices(nodes, {"h2", "h3"})[k]]
                IN /\ builtList[k].href = <<"#">> \o h.id
                   /\ builtList[k].indent = (h.kind = "h3")

\* an outline of three entries, an h2 and an h3 among them, was built for
\* headings of which one had no id before
C13_Witness ==
  /\ lastOp = "generateTOC"
  /\ Len(builtList) = 3
  /\ \E j, k \in 1..3 : builtList[j].indent /\ ~builtList[k].indent
  /\ \E i \in 1..Len(prevNodes) :
       prevNodes[i].kind \in {"h2", "h3"} /\ prevNodes[i].id = <<>>
  /\ TocCount(nodes) = 1

\* C19: however often addCopyLinks is called, no node carries more than one
\* copy button, only h2/h3 headings with an id carry one, and right after a
\* call every h2/h3 heading with an id carries exactly one.
C19_CopyLinkOncePerHeading ==
  /\ \A i \in 1..Len(nodes) :
       /\ nodes[i].links <= 1
       /\ (nodes[i].links = 1 =>
              nodes[i].kind \in {"h2", "h3"} /\ nodes[i].id # <<>>)
  /\ (lastOp = "addCopyLinks" =>
        \A i \in 1..Len(nodes) :
          (nodes[i].kind \in {"h2", "h3"} /\ nodes[i].id # <<>>)
             => nodes[i].links = 1)

\* addCopyLinks ran twice in a row on a region with a heading that has an
\* id (one button) and a heading that has none (no button)
C19_Witness ==
  /\ lastOp = "addCopyLinks" /\ prevOp = "addCopyLinks"
  /\ \E i, j \in 1..Len(nodes) :
       /\ nodes[i].kind \in {"h2", "h3"} /\ nodes[i].links = 1
       /\ nodes[j].kind \in {"h2", "h3"} /\ nodes[j].id = <<>>
       /\ nodes[j].links = 0

----------------------------------------------------------------------------
\* Properties of LinkCopier.copyLink

\* C16: whenever every started copy has settled and every feedback timer
\* has fired (the feedback duration has elapsed after the last activation),
\* the button shows the link icon again, however the activations were
\* spaced.
C16_FeedbackIconReverts ==
  (copyInflight = 0 /\ feedbackTimers = <<>>) => btnIcon = "link"

\* C17: a copyLink call shows the success feedback only when writeText or
\* the fallback copied the URL; when both failed, by a false return value
\* or by an exception, it shows none.
C17_FeedbackOnlyOnSuccess ==
  lastOp = "copy-settled" =>
      (lastFeedback <=> lastOutcome \in {"written", "fallback-copied"})

----------------------------------------------------------------------------
\* Properties of SmoothScroll

\* C18: for a click on an in-page anchor link other than the bare "#", the
\* default is prevented exactly when the target resolves; without a target
\* no scroll is issued; with one, a scroll to target.top + pageYOffset - 80.
C18_PreventDefaultIffResolved ==
  (lastOp = "anchor-click" /\ clickKind \in {"resolves", "missing", "invalid"})
  => /\ (defaultPrevented <=> clickKind = "resolves")
     /\ (clickKind # "resolves" => scrollIssued = <<>>)
     /\ (clickKind = "resolves" =>
            scrollIssued = <<targetTop + pageYOffset - 80>>)

----------------------------------------------------------------------------
\* Properties of Analytics

\* number of page-view lines in the sink for a location
PageViewLines(path) ==
  Cardinality({i \in 1..Len(sink) : sink[i] = PageViewLine(path)})

\* C20: for every location (path + fragment) the page has been at since
\* Analytics started, fragments navigated to afterwards included, exactly
\* one page-view line was written, and none for a location never visited.
C20_OnePageViewPerLocation ==
  analyticsStarted =>
      \A l \in Locations :
         PageViewLines(l) = (IF l \in visited THEN 1 ELSE 0)

----------------------------------------------------------------------------
\* Claims about the ThemeManager as a whole

\* C26: once the ThemeManager has started (so after startup and after every
\* toggle and every system change the listener handled), this.currentTheme
\* equals the data-color-scheme attribute, equals the stored value whenever
\* storage works, and whenever the toggle button exists its icon and label
\* are those of the current theme: sun / 'Switch to light theme' when dark,
\* moon / 'Switch to dark theme' otherwise.
C26_ThemeStateConsistent ==
  started =>
    /\ currentTheme = attr
    /\ (storageOK => stored = currentTheme)
    /\ (toggleCount >= 1 =>
          /\ toggleIcon = (IF currentTheme = "dark" THEN "sun" ELSE "moon")
          /\ toggleLabel = (IF currentTheme = "dark"
                            THEN "Switch to light theme"
                            ELSE "Switch to dark theme"))

\* the toggle was clicked twice with storage working, the theme going to
\* dark and back to light
C26_Witness ==
  /\ lastOp = "toggle" /\ prevOp = "toggle"
  /\ storageOK /\ toggleCount = 1
  /\ prevCur = "dark" /\ currentTheme = "light"

\* a system change the listener handled, with the toggle button present
C26_WitnessSystem ==
  /\ lastOp = "system" /\ attr # prevAttr /\ toggleCount = 1

\* C27: at most one retry timer of addToggle is pending in every reachable
\* state, and once addToggle has run with .app-nav present no retry timer is
\* pending any more.
C27_RetryTimersBounded ==
  /\ retryTimers <= 1
  /\ (ranWithNav => retryTimers = 0)

\* the retry timer fired twice without finding .app-nav: one timer pending
C27_Witness ==
  /\ lastOp = "timer" /\ prevOp = "timer"
  /\ ~navPresent /\ retryTimers = 1 /\ toggleCount = 0

\* .app-nav appeared between two polls and the second poll found it
C27_WitnessFound ==
  /\ lastOp = "timer" /\ prevOp = "nav"
  /\ ranWithNav /\ retryTimers = 0

----------------------------------------------------------------------------
\* Claims about ReadingProgress.createProgressBar

\* C23: however often createProgressBar is called in a document, the
\* document holds exactly one progress bar element.
C23_ProgressBarSingleton ==
  progStarted => barCount = 1

----------------------------------------------------------------------------
\* Claims about the SearchEnhancer

\* C22: enhanceSearch runs once.  If the search input was absent then, no
\* key handler is ever registered, no further attempt is pending, and no
\* key press ever focuses the input or has its default prevented, even
\* after the input appeared; if it was present, exactly one key handler is
\* registered.  Before the attempt no handler is registered.
C22_SearchSingleAttempt ==
  /\ (attemptSaw = "none" => keyHandlers = 0)
  /\ (attemptSaw = "absent" =>
        /\ keyHandlers = 0 /\ ~searchTimer
        /\ ~shortcutFocused /\ ~keyPrevented /\ placeholder = "")
  /\ (attemptSaw = "present" => keyHandlers = 1 /\ ~searchTimer)

\* the input was absent at the attempt, appeared later, and Ctrl/Cmd+K was
\* pressed: the focus did not move
C22_Witness ==
  /\ attemptSaw = "absent" /\ searchInput
  /\ lastOp = "keydown" /\ lastKey = "mod+k" /\ ~searchFocused

\* the input was present at the attempt and Ctrl/Cmd+K focused it
C22_WitnessPresent ==
  /\ attemptSaw = "present" /\ keyHandlers = 1
  /\ lastOp = "keydown" /\ lastKey = "mod+k" /\ searchFocused

----------------------------------------------------------------------------
\* Claims about the order of LinkCopier's and TableOfContents' timers

\* C24: once both timers have fired, every h2/h3 heading of the region that
\* has an id carries a copy button, the headings that got their id from
\* createTOCList included.
C24_AllIdentifiedHeadingsLinked ==
  (contentStarted /\ ~linkTimer /\ ~tocTimer) =>
     \A i \in 1..Len(nodes) :
        (nodes[i].kind \in {"h2", "h3"} /\ nodes[i].id # <<>>)
           => nodes[i].links >= 1

\* C25: the text of every entry of the outline generateTOC built is the
\* text the host rendered for its heading, without the label of the copy
\* button inside the heading.
C25_OutlineTextIsHeadingText ==
  lastOp = "generateTOC" =>
     \A k \in 1..Len(builtList) :
        /\ builtList[k].text = nodes[Indices(nodes, {"h2", "h3"})[k]].text
        /\ \A j \in 1..Len(builtList[k].text) :
              builtList[k].text[j] # LinkIcon

----------------------------------------------------------------------------
\* Claims about Analytics next to the other components

\* a step the ThemeManager takes on its own state when no Analytics exists
ThemeAloneStep ==
  \/ StartupStep
  \/ ToggleClickStep
  \/ SystemChangeStep
  \/ NavAppearsStep
  \/ RetryTimerStep

\* the state of the document and of the components other than Analytics
\* and the ThemeManager
RestOfPage == <<progVars, slugVars, contentVars, copyVars, smoothVars,
                searchVars>>

IsPrefix(a, b) == Len(a) <= Len(b) /\ SubSeq(b, 1, Len(a)) = a

====
